---- MODULE Spec2Model ----
(***************************************************************************)
(* A model of cad/part1.py: the parametric build123d script that makes the *)
(* silicone casting mold (outer shell, inner core in two halves) for a hot *)
(* plate, and exports every part as STL and STEP.                          *)
(*                                                                         *)
(* Lengths are exact: one model unit is 0.05 mm (U units per millimetre),  *)
(* so that every dimension of the script (3.5, 1.8, 3.2, ...) and every    *)
(* half of one is an integer.  A solid is modelled by its extension over a *)
(* finite set of probe points (Probes): the boolean operations of the      *)
(* kernel (+, -, &) are set union, difference and intersection, and each   *)
(* primitive (Box, Cylinder, fillet) is its exact membership test.  A      *)
(* position that is no multiple of the unit (the centre of mass of the     *)
(* plate) is kept as an exact fraction <<numerator, denominator>>.         *)
(***************************************************************************)
EXTENDS Integers, Sequences, FiniteSets, TLC

VARIABLES
    K,          \* the module-level constants and calculated dimensions
    ci,         \* the environment indicator that makes show() skip the viewer
    build_dir,  \* whether the build output directory exists
    pc,         \* position of the script: "import", "validate", "build", "export", "done", "crashed"
    parts,      \* the parts dictionary, in insertion order: <<[name, part], ...>>
    frame,      \* the call of make_silicone_mold_outer in progress (its p and loop index)
    files,      \* the files written so far, in order
    shown,      \* how many parts the interactive viewer displayed
    log,        \* the logger.info messages, in order
    err,        \* the exception that ended the script ("none" while it runs)
    calls,      \* the calls made on the imported module: <<[fn, args, outcome, ret], ...>>
    inner_log   \* the value returned by each call of make_silicone_mold_inner, in order

vars == <<K, ci, build_dir, pc, parts, frame, files, shown, log, err, calls, inner_log>>

-----------------------------------------------------------------------------
(* Units and exact fractions *)

\* Model units per millimetre: the constants of the file are written in
\* millimetres with at most one decimal, and are halved by the code.
U == 20

Mm(n) == n * U

\* n tenths of a millimetre.
Tenths(n) == n * (U \div 10)

Abs(n) == IF n < 0 THEN -n ELSE n

Max2(a, b) == IF a >= b THEN a ELSE b

\* Fractions are functions, not operators: a function is applied to the
\* values of its arguments, so a nested expression is evaluated once.
GCD[a \in Nat, b \in Nat] == IF b = 0 THEN a ELSE GCD[b, a % b]

\* A fraction <<n, d>> in lowest terms with d > 0.
RNorm[r \in Int \X Int] ==
    LET g == GCD[Abs(r[1]), Abs(r[2])]
        s == IF r[2] < 0 THEN -1 ELSE 1
    IN  IF g = 0 THEN <<0, 1>> ELSE <<s * (r[1] \div g), s * (r[2] \div g)>>

RAdd[r \in Int \X Int, s \in Int \X Int] ==
    LET g == GCD[Abs(r[2]), Abs(s[2])]
    IN  RNorm[<<r[1] * (s[2] \div g) + s[1] * (r[2] \div g), (r[2] \div g) * s[2]>>]

RNeg[r \in Int \X Int] == <<-r[1], r[2]>>

RSub[r \in Int \X Int, s \in Int \X Int] == RAdd[r, RNeg[s]]

RMul[r \in Int \X Int, s \in Int \X Int] ==
    LET g1 == GCD[Abs(r[1]), Abs(s[2])]
        g2 == GCD[Abs(s[1]), Abs(r[2])]
    IN  IF r[1] = 0 \/ s[1] = 0 THEN <<0, 1>>
        ELSE RNorm[<<(r[1] \div g1) * (s[1] \div g2), (r[2] \div g2) * (s[2] \div g1)>>]

\* r / s, for s # 0.
RDiv[r \in Int \X Int, s \in Int \X Int] == RMul[r, <<s[2], s[1]>>]

-----------------------------------------------------------------------------
(* The module constants (part1.py lines 13-56) *)

\* itertools.product(a, b): the pairs in lexicographic order of position.
Product(a, b) ==
    [k \in 1..(Len(a) * Len(b)) |->
        <<a[((k - 1) \div Len(b)) + 1], b[((k - 1) % Len(b)) + 1]>>]

\* The calculated dimensions, as the module computes them from the constants.
Calculated(c) ==
    LET length == (2 * c.silicone_vertical_wall_t)
                    + Max2(c.hot_level_width, c.top_level_width)
        height == (2 * c.silicone_horizontal_wall_t)
                    + (c.hot_level_height + c.top_level_height)
    IN  [total_cast_outside_length |-> length,
         total_cast_outside_height |-> height,
         total_mold_outside_length |-> (2 * c.mold_general_t) + length,
         total_mold_outside_height |-> (2 * c.mold_general_t) + height,
         bolt_standoff_length |-> c.silicone_vertical_wall_t]

\* The constants as written in the file.
Constants ==
    [top_level_width |-> Mm(218),
     top_level_height |-> Mm(39),
     hot_level_width |-> Mm(200),
     hot_level_height |-> Tenths(35),
     silicone_vertical_wall_t |-> Tenths(35),
     silicone_horizontal_wall_t |-> Mm(3),
     silicone_dist_on_top |-> Mm(25),
     silicone_dist_on_bottom |-> Mm(10),
     silicone_dist_on_top_radius |-> Mm(5),
     silicone_dist_on_bottom_radius |-> Mm(15),
     silicone_box_outer_radius |-> Mm(2),
     mold_general_t |-> Tenths(18),
     bolt_diameter |-> Tenths(32),
     bolt_standoff_od |-> Mm(7),
     bolt_hole_signs |-> Product(<<Mm(20), Mm(85), Mm(-20), Mm(-85)>>, <<Mm(10), Mm(-10)>>),
     pouring_hole_diameter |-> Mm(28),
     top_filament_saver_box |-> <<Mm(125), Mm(125), Mm(100)>>,
     bottom_filament_saver_box |-> <<Mm(170), Mm(192), Mm(100)>>]

\* The module namespace after import: the constants and the calculated dimensions.
Module(c) == c @@ Calculated(c)

-----------------------------------------------------------------------------
(* The geometry kernel: primitives as exact membership tests.              *)
(* A box is kept in doubled coordinates [x0, x1, y0, y1, z0, z1] (twice    *)
(* the model unit), so that a centred box of odd size stays exact.         *)

\* bd.Box(length, width, height, align=...): build123d_ease names an alignment
\* after the face of the box that is put on the origin (TOP: the box hangs
\* below z = 0, BOTTOM: it stands on z = 0, LEFT: it lies in x >= 0,
\* FRONT: in y >= 0, BACK: in y <= 0).
Box(l, w, h, align) ==
    [x0 |-> IF align = "LEFT" THEN 0 ELSE -l,
     x1 |-> IF align = "LEFT" THEN 2 * l ELSE l,
     y0 |-> IF align = "FRONT" THEN 0 ELSE IF align = "BACK" THEN -(2 * w) ELSE -w,
     y1 |-> IF align = "FRONT" THEN 2 * w ELSE IF align = "BACK" THEN 0 ELSE w,
     z0 |-> IF align = "BOTTOM" THEN 0 ELSE IF align = "TOP" THEN -(2 * h) ELSE -h,
     z1 |-> IF align = "BOTTOM" THEN 2 * h ELSE IF align = "TOP" THEN 0 ELSE h]

\* The kernel refuses a box with a dimension that is not positive.
BoxOk(l, w, h) == l > 0 /\ w > 0 /\ h > 0

\* The kernel refuses a fillet that is not positive or leaves no flat face
\* between two rounded edges of the listed directions.
FilletOk(r, sizes) == r > 0 /\ \A s \in sizes : 2 * r < s

\* How far coordinate c (doubled) lies outside the interval [lo, hi].
Outside(c, lo, hi) == IF c < lo THEN lo - c ELSE IF c > hi THEN c - hi ELSE 0

\* Point q (model units) within box b translated by dz in Z (dz doubled).
InBox(q, b, dz) ==
    /\ b.x0 <= 2 * q[1] /\ 2 * q[1] <= b.x1
    /\ b.y0 <= 2 * q[2] /\ 2 * q[2] <= b.y1
    /\ b.z0 + dz <= 2 * q[3] /\ 2 * q[3] <= b.z1 + dz

\* Point q within box b translated in Z by the fraction sh (model units).
InBoxShifted(q, b, sh) ==
    /\ b.x0 <= 2 * q[1] /\ 2 * q[1] <= b.x1
    /\ b.y0 <= 2 * q[2] /\ 2 * q[2] <= b.y1
    /\ b.z0 * sh[2] + 2 * sh[1] <= 2 * q[3] * sh[2]
    /\ 2 * q[3] * sh[2] <= b.z1 * sh[2] + 2 * sh[1]

\* box.fillet(radius, box.edges()): all twelve edges rounded.
InFilletAll(q, b, r, dz) ==
    LET ex == Outside(2 * q[1], b.x0 + 2 * r, b.x1 - 2 * r)
        ey == Outside(2 * q[2], b.y0 + 2 * r, b.y1 - 2 * r)
        ez == Outside(2 * q[3], b.z0 + dz + 2 * r, b.z1 + dz - 2 * r)
    IN  InBox(q, b, dz) /\ ex * ex + ey * ey + ez * ez <= 4 * r * r

\* box.fillet(radius, box.edges().filter_by(Axis.Z)): the four vertical edges rounded.
InFilletZ(q, b, r) ==
    LET ex == Outside(2 * q[1], b.x0 + 2 * r, b.x1 - 2 * r)
        ey == Outside(2 * q[2], b.y0 + 2 * r, b.y1 - 2 * r)
    IN  InBox(q, b, 0) /\ ex * ex + ey * ey <= 4 * r * r

\* bd.Cylinder(radius = diameter / 2, height, rotation = +/-X, align = ...)
\* .translate((x, y, z)): a cylinder along X from x0 to x1 (doubled) about
\* the axis (y, z) (model units).
InCylinderX(q, diameter, x0, x1, y, z) ==
    /\ x0 <= 2 * q[1] /\ 2 * q[1] <= x1
    /\ 4 * ((q[2] - y) * (q[2] - y) + (q[3] - z) * (q[3] - z)) <= diameter * diameter

-----------------------------------------------------------------------------
(* Probe points: where the solids are sampled *)

Range(f) == {f[i] : i \in DOMAIN f}

\* X stations: inside the inner mold (both sides), one unit to either side
\* of the side face of the inner mold, the middle of a standoff, one unit
\* to either side of the inside of the outer wall, the middle of the wall,
\* one unit to either side of its outer face.
ProbeXs ==
    LET M == Module(Constants)
    IN  {Mm(100), -Mm(100),
         (M.top_level_width \div 2) - 1, (M.top_level_width \div 2) + 1,
         (M.top_level_width + M.total_cast_outside_length) \div 4,
         (M.total_cast_outside_length \div 2) - 1, (M.total_cast_outside_length \div 2) + 1,
         (M.total_cast_outside_length + M.total_mold_outside_length) \div 4,
         (M.total_mold_outside_length \div 2) - 1, (M.total_mold_outside_length \div 2) + 1}

\* Y offsets from a bolt axis: on the axis and inside the hole, inside the
\* standoff but outside the hole, outside the standoff.
HoleOffsets == {0, Tenths(15)}
StandoffOffset == Tenths(25)
ClearOffset == Mm(4)

BoltProbes ==
    {<<x, b[1] + dy, b[2]>> :
        x \in ProbeXs, b \in Range(Constants.bolt_hole_signs),
        dy \in HoleOffsets \cup {StandoffOffset, ClearOffset}}

\* Points of the plane y = 0: in the inner mold, one unit to either side of
\* where the plate surfaces lie if the plate is centred in the cast outline,
\* one unit to either side of the faces of the outer wall (side face of the
\* inner mold, top and bottom of the cast outline and of the mold), and in
\* the pouring hole.
PlaneProbes ==
    LET M == Module(Constants)
        top == (M.total_cast_outside_height \div 2) - M.silicone_horizontal_wall_t
        cast == M.total_cast_outside_height \div 2
        mold == M.total_mold_outside_height \div 2
    IN  {<<x, 0, z>> : x \in {Mm(100), -Mm(100)}, z \in {Mm(10), -Mm(10)}}
        \cup {<<Mm(95), 0, z>> : z \in {top - 1, top + 1}}
        \cup {<<Mm(105), 0, z>> : z \in {-top - 1, -top + 1}}
        \cup {<<Mm(105), 0, z>> : z \in {cast - 1, cast + 1, mold - 1, mold + 1,
                                         -cast - 1, -cast + 1, -mold - 1, -mold + 1}}
        \cup {<<x, 0, Mm(10)>> : x \in {(M.top_level_width \div 2) - 1,
                                        (M.top_level_width \div 2) + 1}}
        \cup {<<(M.total_cast_outside_length + M.total_mold_outside_length) \div 4, 0, 0>>,
              <<0, 0, 0>>}

Probes == BoltProbes \cup PlaneProbes

-----------------------------------------------------------------------------
(* bd.Part values *)

\* A Part: the probe points it contains, and the probe points of the
\* component that was scaled about the origin (by 0.995) before it was added.
\* While a function builds its part p, the model follows each probe point q
\* through the statements: p += shape is "q in p or q in shape", p -= shape
\* is "q in p and q not in shape", p & shape is "q in p and q in shape".
MakePart(points) == [type |-> "Part", pts |-> points, scaled |-> {}]

EmptyPart == MakePart({})

-----------------------------------------------------------------------------
(* The functions of part1.py *)

\* The two boxes of make_plate_model.
PlateBoxes(k) ==
    <<Box(k.top_level_width, k.top_level_width, k.top_level_height, "TOP"),
      Box(k.hot_level_width, k.hot_level_width, k.hot_level_height, "BOTTOM")>>

\* The volume of box a over the volume of box b.
VolumeRatio(a, b) ==
    RMul[RMul[RNorm[<<a.x1 - a.x0, b.x1 - b.x0>>], RNorm[<<a.y1 - a.y0, b.y1 - b.y0>>]],
         RNorm[<<a.z1 - a.z0, b.z1 - b.z0>>]]

\* part.center().Z for a part fused from boxes with disjoint interiors:
\* build123d's center() of a Part is the centre of mass (CenterOf.MASS),
\* the sum of the centres weighted by volume over the sum of the volumes.
\* The volumes are taken relative to the first box; the fraction is in
\* model units.
RECURSIVE WeightedZ(_, _)
WeightedZ(boxes, n) ==
    IF n = 0 THEN <<0, 1>>
    ELSE RAdd[WeightedZ(boxes, n - 1),
              RMul[VolumeRatio(boxes[n], boxes[1]), RNorm[<<boxes[n].z0 + boxes[n].z1, 4>>]]]

RECURSIVE Weight(_, _)
Weight(boxes, n) ==
    IF n = 0 THEN <<0, 1>>
    ELSE RAdd[Weight(boxes, n - 1), VolumeRatio(boxes[n], boxes[1])]

CenterZ(boxes) == RDiv[WeightedZ(boxes, Len(boxes)), Weight(boxes, Len(boxes))]

\* part.bounding_box().center().Z of a box (doubled coordinates in, doubled out).
BoundingBoxCenterZ(b) == (b.z0 + b.z1) \div 2

\* q in the part of make_plate_model().
InPlateModel(k, q) ==
    LET p0 == FALSE
        p1 == p0 \/ InBox(q, PlateBoxes(k)[1], 0)
        p2 == p1 \/ InBox(q, PlateBoxes(k)[2], 0)
    IN  p2

make_plate_model(k) == MakePart({q \in Probes : InPlateModel(k, q)})

\* The box of the cast outline, before the fillet.
OutlineBox(k) ==
    Box(k.total_cast_outside_length, k.total_cast_outside_length,
        k.total_cast_outside_height, "CENTER")

\* q in the part of _make_silicone_cast_positive_outline().
InOutline(k, q) == InFilletAll(q, OutlineBox(k), k.silicone_box_outer_radius, 0)

make_silicone_cast_positive_outline(k) == MakePart({q \in Probes : InOutline(k, q)})

\* The Z translation that make_silicone_cast_positive gives the plate model:
\* (0, 0, -plate_model.center().Z).
PlateShift(k) == RNeg[CenterZ(PlateBoxes(k))]

\* q in plate_model.translate((0, 0, sh)).
InPlacedPlate(k, q, sh) ==
    \E i \in 1..Len(PlateBoxes(k)) : InBoxShifted(q, PlateBoxes(k)[i], sh)

TopBox(k) ==
    Box(k.hot_level_width - 2 * k.silicone_dist_on_top,
        k.hot_level_width - 2 * k.silicone_dist_on_top, Mm(100), "BOTTOM")

BottomBox(k) ==
    Box(k.top_level_width - 2 * k.silicone_dist_on_bottom,
        k.top_level_width - 2 * k.silicone_dist_on_bottom, Mm(100), "TOP")

\* q in the part of make_silicone_cast_positive(remove_real_hot_plate=...),
\* the plate model being translated by sh.
InCastPositive(k, q, remove_real_hot_plate, sh) ==
    LET p0 == FALSE
        p1 == p0 \/ InOutline(k, q)
        p2 == IF remove_real_hot_plate THEN p1 /\ ~InPlacedPlate(k, q, sh) ELSE p1
        p3 == p2 /\ ~InFilletZ(q, TopBox(k), k.silicone_dist_on_top_radius)
        p4 == p3 /\ ~InFilletZ(q, BottomBox(k), k.silicone_dist_on_bottom_radius)
    IN  p4

\* plate_model.center() is computed once per call: sh ranges over the one
\* value PlateShift(k).
make_silicone_cast_positive(k, remove_real_hot_plate) ==
    LET Points(sh) == {q \in Probes : InCastPositive(k, q, remove_real_hot_plate, sh)}
    IN  MakePart(UNION {Points(sh) : sh \in {PlateShift(k)}})

\* q in the outer mold before the standoff loop: the outer box, less the
\* cast outline, the pouring hole and the two filament saver boxes.
InOuterBeforeLoop(k, q, with_pour_hole) ==
    LET p0 == FALSE
        p1 == p0 \/ InBox(q, Box(k.total_mold_outside_length, k.total_mold_outside_length,
                                 k.total_mold_outside_height, "CENTER"), 0)
        dz == 2 * BoundingBoxCenterZ(OutlineBox(k))
        p2 == p1 /\ ~InFilletAll(q, OutlineBox(k), k.silicone_box_outer_radius, dz)
        p3 == IF with_pour_hole
              THEN p2 /\ ~InCylinderX(q, k.pouring_hole_diameter, 0, 2 * Mm(1000), 0, 0)
              ELSE p2
        top == k.top_filament_saver_box
        bot == k.bottom_filament_saver_box
        p4 == p3 /\ ~InBox(q, Box(top[1] - Mm(8), top[2] - Mm(8), top[3] - Mm(8), "CENTER"), 0)
        p5 == p4 /\ ~InBox(q, Box(bot[1] - Mm(8), bot[2] - Mm(8), bot[3] - Mm(8), "TOP"), 0)
    IN  p5

OuterBeforeLoop(k, with_pour_hole) ==
    MakePart({q \in Probes : InOuterBeforeLoop(k, q, with_pour_hole)})

\* The standoff rotated the other way: from the inside of the wall outward.
InStandoff_Outward(k, q, pos) ==
    InCylinderX(q, k.bolt_standoff_od, k.total_cast_outside_length,
                k.total_cast_outside_length + 2 * k.bolt_standoff_length, pos[1], pos[2])

\* q in the standoff at bolt position pos: a cylinder from the inside of the
\* wall toward the centre.
InStandoff(k, q, pos) ==
    InCylinderX(q, k.bolt_standoff_od,
                k.total_cast_outside_length - 2 * k.bolt_standoff_length,
                k.total_cast_outside_length, pos[1], pos[2])

\* q in the bolt hole of the outer mold at pos: from x = 0 in the +X direction.
InOuterBoltHole(k, q, pos) ==
    InCylinderX(q, k.bolt_diameter, 0, 2 * Mm(1000), pos[1], pos[2])

\* The loop body with its two statements exchanged: the hole is cut, then
\* the standoff is added.
InOuterLoopBody_HoleFirst(k, q, in, pos) ==
    (in /\ ~InOuterBoltHole(k, q, pos)) \/ InStandoff(k, q, pos)

\* One iteration of the loop, for a point that was in p or not (in): the
\* standoff is added, then the hole is cut.
InOuterLoopBody(k, q, in, pos) == (in \/ InStandoff(k, q, pos)) /\ ~InOuterBoltHole(k, q, pos)

\* One iteration of the loop, on the part p.
OuterLoopBody(k, p, pos) ==
    [p EXCEPT !.pts = {q \in Probes : InOuterLoopBody(k, q, q \in p.pts, pos)}]

\* q in the outer mold after the first n iterations over bolt_hole_signs.
RECURSIVE InOuterLoop(_, _, _, _)
InOuterLoop(k, q, with_pour_hole, n) ==
    IF n = 0 THEN InOuterBeforeLoop(k, q, with_pour_hole)
    ELSE InOuterLoopBody(k, q, InOuterLoop(k, q, with_pour_hole, n - 1), k.bolt_hole_signs[n])

\* "Keep only the positive X side."
InPositiveX(q) == InBox(q, Box(Mm(1000), Mm(1000), Mm(1000), "LEFT"), 0)

OuterAfterLoop(p) == [p EXCEPT !.pts = {q \in p.pts : InPositiveX(q)}]

make_silicone_mold_outer(k, with_pour_hole) ==
    MakePart({q \in Probes :
                InOuterLoop(k, q, with_pour_hole, Len(k.bolt_hole_signs)) /\ InPositiveX(q)})

\* q in the bolt hole of the inner mold at pos: centred on x = 0.
InInnerBoltHole(k, q, pos) ==
    InCylinderX(q, k.bolt_diameter, -Mm(1000), Mm(1000), pos[1], pos[2])

\* p.faces().sort_by(Axis.Z)[-1].center().Z (doubled): the highest face of
\* the inner mold is the flat ring left of the top of the cast outline
\* around the filament saver hole.
TopFaceZ(k) == OutlineBox(k).z1

\* q in the part of make_silicone_mold_inner().
InInner(k, q, sh) ==
    LET p0 == FALSE
        p1 == p0 \/ InOutline(k, q)
        p2 == p1 /\ ~InCastPositive(k, q, TRUE, sh)
        p3 == p2 /\ \A i \in 1..Len(k.bolt_hole_signs) :
                        ~InInnerBoltHole(k, q, k.bolt_hole_signs[i])
        top == k.top_filament_saver_box
        bot == k.bottom_filament_saver_box
        p4 == p3 /\ ~InBox(q, Box(top[1], top[2], top[3], "CENTER"), 0)
        dz == TopFaceZ(k) - 2 * k.hot_level_height - 2 * k.silicone_horizontal_wall_t
                - 2 * k.mold_general_t
        p5 == p4 /\ ~InBox(q, Box(bot[1], bot[2], bot[3], "TOP"), dz)
    IN  p5

make_silicone_mold_inner(k) ==
    LET Points(sh) == {q \in Probes : InInner(k, q, sh)}
    IN  MakePart(UNION {Points(sh) : sh \in {PlateShift(k)}})

\* Both sides keeping the same half space.
HalfBox_BothFront(side) == Box(Mm(1000), Mm(1000), Mm(1000), "FRONT")

\* The half space a side keeps: "left" is Box(..., align=FRONT), "right" is
\* Box(..., align=BACK).
HalfBox(side) ==
    IF side = "left" THEN Box(Mm(1000), Mm(1000), Mm(1000), "FRONT")
    ELSE Box(Mm(1000), Mm(1000), Mm(1000), "BACK")

\* The outcome of a call: a value returned, or an exception raised.
Returned(v) == [outcome |-> "returned", ret |-> v, origin |-> "none"]
Raised(exc, origin) == [outcome |-> exc, ret |-> "none", origin |-> origin]

\* The part a half keeps of the inner mold p.
HalfOf(p, side) == [p EXCEPT !.pts = {q \in p.pts : InBox(q, HalfBox(side), 0)}]

\* The function without its final else: any other selector returns the
\* whole inner mold.
make_silicone_mold_inner_half_NoElse(k, side) ==
    IF side = "left" THEN Returned(HalfOf(make_silicone_mold_inner(k), "left"))
    ELSE IF side = "right" THEN Returned(HalfOf(make_silicone_mold_inner(k), "right"))
    ELSE Returned(make_silicone_mold_inner(k))

make_silicone_mold_inner_half(k, side) ==
    IF side = "left" THEN Returned(HalfOf(make_silicone_mold_inner(k), "left"))
    ELSE IF side = "right" THEN Returned(HalfOf(make_silicone_mold_inner(k), "right"))
    ELSE Raised("ValueError", "make_silicone_mold_inner_half")

\* make_mold_assembly, given the outer mold it has built: the outer mold
\* and the inner mold scaled by 0.995.
AssemblyOf(k, outer) ==
    [type |-> "Part", pts |-> outer.pts, scaled |-> make_silicone_mold_inner(k).pts]

make_mold_assembly(k) == AssemblyOf(k, make_silicone_mold_outer(k, FALSE))

\* Whether the kernel builds make_silicone_cast_positive() from these
\* dimensions: every box has positive sizes and every fillet fits.
CastPositiveBuilds(k) ==
    /\ BoxOk(k.total_cast_outside_length, k.total_cast_outside_length,
             k.total_cast_outside_height)
    /\ FilletOk(k.silicone_box_outer_radius,
                {k.total_cast_outside_length, k.total_cast_outside_height})
    /\ BoxOk(k.top_level_width, k.top_level_width, k.top_level_height)
    /\ BoxOk(k.hot_level_width, k.hot_level_width, k.hot_level_height)
    /\ BoxOk(k.hot_level_width - 2 * k.silicone_dist_on_top,
             k.hot_level_width - 2 * k.silicone_dist_on_top, Mm(100))
    /\ FilletOk(k.silicone_dist_on_top_radius,
                {k.hot_level_width - 2 * k.silicone_dist_on_top})
    /\ BoxOk(k.top_level_width - 2 * k.silicone_dist_on_bottom,
             k.top_level_width - 2 * k.silicone_dist_on_bottom, Mm(100))
    /\ FilletOk(k.silicone_dist_on_bottom_radius,
                {k.top_level_width - 2 * k.silicone_dist_on_bottom})

\* validate(): builds the cast positive and logs its volume; it checks
\* nothing itself, so it raises only what the kernel raises.
validate(k) ==
    IF CastPositiveBuilds(k) THEN Returned("None") ELSE Raised("KernelError", "kernel")

VolumeMessage == "Volume of silicone cast"
ShowingMessage == "Showing CAD model(s)"

\* build123d_ease.show(part): displays the part unless the environment
\* indicator is set, and returns the part it was given.
show(part) == part

\* The keys of the parts dictionary, in the order of the literal.
PartNames ==
    <<"1x_silicone_mold_outer_with_hole", "1x_silicone_mold_outer_without_hole",
      "1x_silicone_mold_inner_half_left", "1x_silicone_mold_inner_half_right",
      "zz_plate_model", "zz_silicone_cast_positive", "zz_silicone_mold_inner",
      "zz_mold_assembly">>

\* isinstance(part, bd.Part)
IsPart(v) == v.type = "Part"

NoFrame == [active |-> FALSE, with_pour_hole |-> FALSE, p |-> EmptyPart, i |-> 0]

-----------------------------------------------------------------------------
(* The script run: the __main__ block *)

Init ==
    /\ K = Module(Constants)
    /\ ci \in BOOLEAN
    /\ build_dir \in BOOLEAN
    /\ pc = "validate"
    /\ parts = <<>>
    /\ frame = NoFrame
    /\ files = <<>>
    /\ shown = 0
    /\ log = <<>>
    /\ err = "none"
    /\ calls = <<>>
    /\ inner_log = <<>>

\* The exception r ends the script.
Crash(r) ==
    /\ pc' = "crashed"
    /\ err' = r.outcome

\* The index of the dictionary entry being evaluated.
NextEntry == Len(parts) + 1

RunValidate ==
    /\ pc = "validate"
    /\ LET r == validate(K)
       IN  IF r.outcome = "returned"
           THEN pc' = "build" /\ log' = Append(log, VolumeMessage) /\ err' = err
           ELSE Crash(r) /\ log' = log
    /\ UNCHANGED <<K, ci, build_dir, parts, frame, files, shown, calls, inner_log>>

\* make_silicone_mold_outer is entered: for the two outer molds and, without
\* the pouring hole, for the assembly.
OuterEnter ==
    /\ pc = "build" /\ ~frame.active
    /\ NextEntry \in {1, 2, 8}
    /\ frame' = [active |-> TRUE, with_pour_hole |-> (NextEntry = 1),
                 p |-> OuterBeforeLoop(K, NextEntry = 1), i |-> 0]
    /\ UNCHANGED <<K, ci, build_dir, pc, parts, files, shown, log, err, calls, inner_log>>

\* One iteration of its standoff and bolt hole loop.
OuterIterate ==
    /\ pc = "build" /\ frame.active
    /\ frame.i < Len(K.bolt_hole_signs)
    /\ frame' = [frame EXCEPT !.p = OuterLoopBody(K, @, K.bolt_hole_signs[frame.i + 1]),
                              !.i = @ + 1]
    /\ UNCHANGED <<K, ci, build_dir, pc, parts, files, shown, log, err, calls, inner_log>>

\* It returns to the dictionary literal, which passes the part through show.
OuterShown ==
    /\ pc = "build" /\ frame.active
    /\ frame.i = Len(K.bolt_hole_signs)
    /\ NextEntry \in {1, 2}
    /\ parts' = Append(parts, [name |-> PartNames[NextEntry],
                               part |-> show(OuterAfterLoop(frame.p))])
    /\ shown' = IF ci THEN shown ELSE shown + 1
    /\ frame' = NoFrame
    /\ UNCHANGED <<K, ci, build_dir, pc, files, log, err, calls, inner_log>>

\* It returns to make_mold_assembly, which adds the scaled inner mold.
AssemblyBuilt ==
    /\ pc = "build" /\ frame.active
    /\ frame.i = Len(K.bolt_hole_signs)
    /\ NextEntry = 8
    /\ parts' = Append(parts, [name |-> PartNames[NextEntry],
                               part |-> AssemblyOf(K, OuterAfterLoop(frame.p))])
    /\ inner_log' = Append(inner_log, make_silicone_mold_inner(K))
    /\ frame' = NoFrame
    /\ UNCHANGED <<K, ci, build_dir, pc, files, shown, log, err, calls>>

HalfBuilt ==
    /\ pc = "build" /\ NextEntry \in {3, 4}
    /\ LET r == make_silicone_mold_inner_half(K, IF NextEntry = 3 THEN "left" ELSE "right")
       IN  IF r.outcome = "returned"
           THEN /\ parts' = Append(parts, [name |-> PartNames[NextEntry], part |-> r.ret])
                /\ UNCHANGED <<pc, err>>
           ELSE Crash(r) /\ parts' = parts
    /\ inner_log' = Append(inner_log, make_silicone_mold_inner(K))
    /\ UNCHANGED <<K, ci, build_dir, frame, files, shown, log, calls>>

PlateBuilt ==
    /\ pc = "build" /\ NextEntry = 5
    /\ parts' = Append(parts, [name |-> PartNames[NextEntry], part |-> make_plate_model(K)])
    /\ UNCHANGED <<K, ci, build_dir, pc, frame, files, shown, log, err, calls, inner_log>>

CastBuilt ==
    /\ pc = "build" /\ NextEntry = 6
    /\ parts' = Append(parts, [name |-> PartNames[NextEntry],
                               part |-> make_silicone_cast_positive(K, TRUE)])
    /\ UNCHANGED <<K, ci, build_dir, pc, frame, files, shown, log, err, calls, inner_log>>

InnerBuilt ==
    /\ pc = "build" /\ NextEntry = 7
    /\ parts' = Append(parts, [name |-> PartNames[NextEntry],
                               part |-> make_silicone_mold_inner(K)])
    /\ inner_log' = Append(inner_log, make_silicone_mold_inner(K))
    /\ UNCHANGED <<K, ci, build_dir, pc, frame, files, shown, log, err, calls>>

\* The dictionary is complete: the message is logged and the output
\* directory is made (mkdir(exist_ok=True)).
ExportBegin ==
    /\ pc = "build" /\ Len(parts) = Len(PartNames)
    /\ log' = Append(log, ShowingMessage)
    /\ build_dir' = TRUE
    /\ pc' = "export"
    /\ UNCHANGED <<K, ci, parts, frame, files, shown, err, calls, inner_log>>

\* The entry the export loop is at: two files are written per entry.
ExportEntry == parts[(Len(files) \div 2) + 1]

\* The two exports exchanged: the STEP file is written first.
ExportStl_StepFirst ==
    /\ pc = "export" /\ Len(files) % 2 = 0
    /\ files' = Append(files, [dir |-> "build", name |-> ExportEntry.name, ext |-> "step"])
    /\ UNCHANGED <<K, ci, build_dir, pc, parts, frame, shown, log, err, calls, inner_log>>

\* The assertion, then export_stl.
ExportStl ==
    /\ pc = "export" /\ Len(files) % 2 = 0
    /\ IF IsPart(ExportEntry.part)
       THEN /\ files' = Append(files, [dir |-> "build", name |-> ExportEntry.name,
                                       ext |-> "stl"])
            /\ UNCHANGED <<pc, err>>
       ELSE /\ Crash(Raised("AssertionError", "__main__"))
            /\ files' = files
    /\ UNCHANGED <<K, ci, build_dir, parts, frame, shown, log, calls, inner_log>>

\* export_step; after the last entry the script ends.
ExportStep ==
    /\ pc = "export" /\ Len(files) % 2 = 1
    /\ files' = Append(files, [dir |-> "build", name |-> ExportEntry.name, ext |-> "step"])
    /\ pc' = IF Len(files') = 2 * Len(parts) THEN "done" ELSE "export"
    /\ UNCHANGED <<K, ci, build_dir, parts, frame, shown, log, err, calls, inner_log>>

-----------------------------------------------------------------------------
(* The module imported: its functions called in any order *)

\* How many calls a run of the imported module makes.
MaxCalls == 2

\* The selectors given to make_silicone_mold_inner_half.
Sides == {"left", "right", "top", "Left", ""}

InitCalls ==
    /\ K = Module(Constants)
    /\ ci \in {TRUE}
    /\ build_dir \in {FALSE}
    /\ pc = "import"
    /\ parts = <<>>
    /\ frame = NoFrame
    /\ files = <<>>
    /\ shown = 0
    /\ log = <<>>
    /\ err = "none"
    /\ calls = <<>>
    /\ inner_log = <<>>

CallRecord(fn, args, r) ==
    [fn |-> fn, args |-> args, outcome |-> r.outcome, ret |-> r.ret, origin |-> r.origin]

CanCall == pc = "import" /\ Len(calls) < MaxCalls

CallValidate ==
    /\ CanCall
    /\ calls' = Append(calls, CallRecord("validate", <<>>, validate(K)))
    /\ log' = IF validate(K).outcome = "returned" THEN Append(log, VolumeMessage) ELSE log
    /\ UNCHANGED <<K, ci, build_dir, pc, parts, frame, files, shown, err, inner_log>>

CallMakePlateModel ==
    /\ CanCall
    /\ calls' = Append(calls, CallRecord("make_plate_model", <<>>, Returned(make_plate_model(K))))
    /\ UNCHANGED <<K, ci, build_dir, pc, parts, frame, files, shown, log, err, inner_log>>

CallMakeSiliconeCastPositive ==
    /\ CanCall
    /\ \E remove_real_hot_plate \in BOOLEAN :
        calls' = Append(calls, CallRecord("make_silicone_cast_positive",
                                          <<remove_real_hot_plate>>,
                                          Returned(make_silicone_cast_positive(
                                                       K, remove_real_hot_plate))))
    /\ UNCHANGED <<K, ci, build_dir, pc, parts, frame, files, shown, log, err, inner_log>>

CallMakeSiliconeMoldOuter ==
    /\ CanCall
    /\ \E with_pour_hole \in BOOLEAN :
        calls' = Append(calls, CallRecord("make_silicone_mold_outer", <<with_pour_hole>>,
                                          Returned(make_silicone_mold_outer(K, with_pour_hole))))
    /\ UNCHANGED <<K, ci, build_dir, pc, parts, frame, files, shown, log, err, inner_log>>

\* The function adjusting a module-level dimension while it builds its part.
CallMakeSiliconeMoldInner_WritesGlobal ==
    /\ CanCall
    /\ calls' = Append(calls, CallRecord("make_silicone_mold_inner", <<>>,
                                        Returned(make_silicone_mold_inner(K))))
    /\ inner_log' = Append(inner_log, make_silicone_mold_inner(K))
    /\ K' = [K EXCEPT !.silicone_horizontal_wall_t = @ + Mm(1)]
    /\ UNCHANGED <<ci, build_dir, pc, parts, frame, files, shown, log, err>>

CallMakeSiliconeMoldInner ==
    /\ CanCall
    /\ calls' = Append(calls, CallRecord("make_silicone_mold_inner", <<>>,
                                        Returned(make_silicone_mold_inner(K))))
    /\ inner_log' = Append(inner_log, make_silicone_mold_inner(K))
    /\ UNCHANGED <<K, ci, build_dir, pc, parts, frame, files, shown, log, err>>

CallMakeSiliconeMoldInnerHalf ==
    /\ CanCall
    /\ \E side \in Sides :
        calls' = Append(calls, CallRecord("make_silicone_mold_inner_half", <<side>>,
                                          make_silicone_mold_inner_half(K, side)))
    /\ inner_log' = Append(inner_log, make_silicone_mold_inner(K))
    /\ UNCHANGED <<K, ci, build_dir, pc, parts, frame, files, shown, log, err>>

CallMakeMoldAssembly ==
    /\ CanCall
    /\ calls' = Append(calls, CallRecord("make_mold_assembly", <<>>,
                                        Returned(make_mold_assembly(K))))
    /\ inner_log' = Append(inner_log, make_silicone_mold_inner(K))
    /\ UNCHANGED <<K, ci, build_dir, pc, parts, frame, files, shown, log, err>>

NextCalls ==
    \/ CallValidate
    \/ CallMakePlateModel
    \/ CallMakeSiliconeCastPositive
    \/ CallMakeSiliconeMoldOuter
    \/ CallMakeSiliconeMoldInner
    \/ CallMakeSiliconeMoldInnerHalf
    \/ CallMakeMoldAssembly

SpecCalls == InitCalls /\ [][NextCalls]_vars

-----------------------------------------------------------------------------
(* The module imported with its dimensions edited: validate() called *)

\* The assignments of the dimensional constants that are tried.
DimChoices ==
    {[Constants EXCEPT !.silicone_vertical_wall_t = vt,
                       !.silicone_horizontal_wall_t = ht,
                       !.hot_level_width = hw,
                       !.top_level_height = th,
                       !.mold_general_t = mt] :
        vt \in {Tenths(35), 0, -Tenths(35)},
        ht \in {Mm(3), 0, -Mm(3)},
        hw \in {Mm(200), Mm(250), 0},
        th \in {Mm(39), 0},
        mt \in {Tenths(18), -Tenths(18)}}

InitDims ==
    /\ K \in {Module(c) : c \in DimChoices}
    /\ ci \in {TRUE}
    /\ build_dir \in {FALSE}
    /\ pc = "import"
    /\ parts = <<>>
    /\ frame = NoFrame
    /\ files = <<>>
    /\ shown = 0
    /\ log = <<>>
    /\ err = "none"
    /\ calls = <<>>
    /\ inner_log = <<>>

NextDims == CallValidate

SpecDims == InitDims /\ [][NextDims]_vars

-----------------------------------------------------------------------------
Next ==
    \/ RunValidate
    \/ OuterEnter
    \/ OuterIterate
    \/ OuterShown
    \/ AssemblyBuilt
    \/ HalfBuilt
    \/ PlateBuilt
    \/ CastBuilt
    \/ InnerBuilt
    \/ ExportBegin
    \/ ExportStl
    \/ ExportStep

Spec == Init /\ [][Next]_vars

-----------------------------------------------------------------------------
(* Properties *)

HalfFn == "make_silicone_mold_inner_half"

\* C1: make_silicone_mold_inner_half raises its ValueError for every
\* selector other than "left" and "right", returns a part for those two,
\* and no other function of the module raises an error.
C1_OnlyInvalidSideRejected ==
    \A i \in DOMAIN calls :
        LET c == calls[i]
        IN  IF c.fn = HalfFn
            THEN IF c.args[1] \in {"left", "right"}
                 THEN c.outcome = "returned" /\ IsPart(c.ret)
                 ELSE c.outcome = "ValueError" /\ c.origin = HalfFn
            ELSE c.outcome = "returned"

C1_Witness ==
    /\ Len(calls) = 2
    /\ calls[1].fn = HalfFn /\ calls[1].args = <<"top">> /\ calls[1].outcome = "ValueError"
    /\ calls[2].fn = HalfFn /\ calls[2].args = <<"left">> /\ calls[2].outcome = "returned"

\* C2: no file is written before validate() has returned and all 8 parts
\* are built; the files are written in dictionary order, the STL of a part
\* before its STEP; every entry is a Part, so the assertion never fails;
\* when the script ends, 16 different files have been written.
C2_ExportsEveryPartInOrder ==
    /\ \A i \in DOMAIN files :
        /\ log # <<>> /\ log[1] = VolumeMessage
        /\ Len(parts) = 8
        /\ files[i] = [dir |-> "build", name |-> parts[(i + 1) \div 2].name,
                       ext |-> IF i % 2 = 1 THEN "stl" ELSE "step"]
    /\ \A i \in DOMAIN parts : IsPart(parts[i].part)
    /\ err = "none" /\ pc # "crashed"
    /\ pc = "done" => Len(files) = 16 /\ Cardinality(Range(files)) = 16

C2_Witness == pc = "done" /\ Len(files) = 16 /\ shown = 2

\* The dimensions the docstring of validate() speaks of are valid: the wall
\* thicknesses and the plate sizes are positive and the hot level is no
\* wider than the cast outline.
DimsValid(k) ==
    /\ k.silicone_vertical_wall_t > 0 /\ k.silicone_horizontal_wall_t > 0
    /\ k.mold_general_t > 0
    /\ k.top_level_width > 0 /\ k.top_level_height > 0
    /\ k.hot_level_width > 0 /\ k.hot_level_height > 0
    /\ k.hot_level_width <= k.total_cast_outside_length

\* C3: validate() raises whenever the dimensional variables are not valid.
C3_ValidateRaisesOnInvalid ==
    \A i \in DOMAIN calls :
        (calls[i].fn = "validate" /\ ~DimsValid(K)) => calls[i].outcome # "returned"

SiliconeOnTop(k) ==
    RSub[RNorm[<<k.total_cast_outside_height, 2>>],
         RAdd[<<k.hot_level_height, 1>>, PlateShift(k)]]
SiliconeBelow(k) ==
    RAdd[RSub[RNorm[<<k.total_cast_outside_height, 2>>], <<k.top_level_height, 1>>],
         PlateShift(k)]
SiliconeAround(k) ==
    RNorm[<<k.total_cast_outside_length - Max2(k.hot_level_width, k.top_level_width), 2>>]

\* C5: in the cast positive the plate is centred vertically: the silicone
\* on top of the plate and below it is exactly silicone_horizontal_wall_t
\* thick, and the silicone around it exactly silicone_vertical_wall_t.
C5_PlateCentred ==
    Len(parts) >= 6 =>
        LET cast == parts[6].part.pts
            top == (K.total_cast_outside_height \div 2) - K.silicone_horizontal_wall_t
        IN  /\ SiliconeOnTop(K) = <<K.silicone_horizontal_wall_t, 1>>
            /\ SiliconeBelow(K) = <<K.silicone_horizontal_wall_t, 1>>
            /\ SiliconeAround(K) = <<K.silicone_vertical_wall_t, 1>>
            /\ <<Mm(95), 0, top + 1>> \in cast /\ <<Mm(95), 0, top - 1>> \notin cast
            /\ <<Mm(105), 0, -top - 1>> \in cast /\ <<Mm(105), 0, -top + 1>> \notin cast

\* X stations along a standoff and through the outer wall.
StandoffStations(k) ==
    {(k.top_level_width \div 2) + 1,
     (k.top_level_width + k.total_cast_outside_length) \div 4,
     (k.total_cast_outside_length \div 2) - 1}
WallStations(k) ==
    {(k.total_cast_outside_length \div 2) + 1,
     (k.total_cast_outside_length + k.total_mold_outside_length) \div 4,
     (k.total_mold_outside_length \div 2) - 1}

\* In the solid s the bolt hole at pos is open through the standoff and
\* the wall, and the standoff and the wall stand around it.
HoleOpen(s, pos) ==
    /\ \A x \in StandoffStations(K) \cup WallStations(K), dy \in HoleOffsets :
        <<x, pos[1] + dy, pos[2]>> \notin s
    /\ \A x \in StandoffStations(K) \cup WallStations(K) :
        <<x, pos[1] + StandoffOffset, pos[2]>> \in s

\* C6: once the loop has processed a bolt position its hole is open through
\* the standoff and the wall, and stays open while the later positions are
\* processed and in the finished outer molds; any two positions are further
\* apart than a standoff radius plus a hole radius.
C6_BoltHolesStayOpen ==
    /\ frame.active =>
        \A j \in 1..frame.i : HoleOpen(frame.p.pts, K.bolt_hole_signs[j])
    /\ \A i \in DOMAIN parts :
        i \in {1, 2} =>
            \A j \in DOMAIN K.bolt_hole_signs : HoleOpen(parts[i].part.pts, K.bolt_hole_signs[j])
    /\ \A a, b \in DOMAIN K.bolt_hole_signs :
        a # b =>
            LET dy == K.bolt_hole_signs[a][1] - K.bolt_hole_signs[b][1]
                dz == K.bolt_hole_signs[a][2] - K.bolt_hole_signs[b][2]
            IN  4 * (dy * dy + dz * dz)
                    > (K.bolt_standoff_od + K.bolt_diameter) * (K.bolt_standoff_od + K.bolt_diameter)

C6_Witness ==
    /\ frame.active /\ frame.i = Len(K.bolt_hole_signs) /\ Len(K.bolt_hole_signs) = 8
    /\ Len(parts) = 1

\* C7: a standoff reaches from the inside of the outer wall exactly to the
\* side face of the inner mold, and the outer wall is exactly mold_general_t
\* thick around the cast outline, sideways and in height.
C7_StandoffBridgesWall ==
    /\ K.bolt_standoff_length = K.silicone_vertical_wall_t
    /\ K.total_cast_outside_length - 2 * K.bolt_standoff_length = K.top_level_width
    /\ K.total_mold_outside_length - K.total_cast_outside_length = 2 * K.mold_general_t
    /\ K.total_mold_outside_height - K.total_cast_outside_height = 2 * K.mold_general_t
    /\ \A i \in DOMAIN parts :
        LET s == parts[i].part.pts
            face == K.top_level_width \div 2
            cast == K.total_cast_outside_height \div 2
            mold == K.total_mold_outside_height \div 2
        IN  /\ i \in {1, 2} =>
                /\ \A j \in DOMAIN K.bolt_hole_signs :
                    LET y == K.bolt_hole_signs[j][1]
                        z == K.bolt_hole_signs[j][2]
                    IN  /\ \A x \in StandoffStations(K) : <<x, y + StandoffOffset, z>> \in s
                        /\ <<face - 1, y + StandoffOffset, z>> \notin s
                        /\ \A x \in StandoffStations(K) : <<x, y + ClearOffset, z>> \notin s
                        /\ \A x \in WallStations(K) : <<x, y + ClearOffset, z>> \in s
                        /\ <<(K.total_mold_outside_length \div 2) + 1, y + ClearOffset, z>>
                                \notin s
                /\ \A sign \in {1, -1} :
                    /\ <<Mm(105), 0, sign * (cast - 1)>> \notin s
                    /\ <<Mm(105), 0, sign * (cast + 1)>> \in s
                    /\ <<Mm(105), 0, sign * (mold - 1)>> \in s
                    /\ <<Mm(105), 0, sign * (mold + 1)>> \notin s
            /\ i = 7 =>
                \A j \in DOMAIN K.bolt_hole_signs :
                    LET y == K.bolt_hole_signs[j][1]
                        z == K.bolt_hole_signs[j][2]
                    IN  /\ <<face - 1, y + StandoffOffset, z>> \in s
                        /\ <<face + 1, y + StandoffOffset, z>> \notin s

C7_Witness == Len(parts) >= 7 /\ ~frame.active

\* The bolt positions whose hole is cut in the solid s of a half.
HolesIn(s) ==
    {i \in DOMAIN K.bolt_hole_signs :
        \A x \in {Mm(100), -Mm(100)} :
            /\ <<x, K.bolt_hole_signs[i][1], K.bolt_hole_signs[i][2]>> \notin s
            /\ <<x, K.bolt_hole_signs[i][1] + StandoffOffset, K.bolt_hole_signs[i][2]>> \in s}

\* C8: the two halves are the parts of the same inner mold on either side
\* of the plane y = 0: together they are the whole inner mold and they
\* share nothing off that plane; no bolt hole touches the plane, and each
\* half holds 4 of the 8 bolt holes.
C8_HalvesComplementary ==
    Len(parts) >= 7 =>
        LET l == parts[3].part.pts
            r == parts[4].part.pts
            inner == parts[7].part.pts
        IN  /\ l \cup r = inner
            /\ \A q \in l \cap r : q[2] = 0
            /\ \/ (\A q \in l : q[2] >= 0) /\ (\A q \in r : q[2] <= 0)
               \/ (\A q \in l : q[2] <= 0) /\ (\A q \in r : q[2] >= 0)
            /\ \A i \in DOMAIN K.bolt_hole_signs :
                2 * Abs(K.bolt_hole_signs[i][1]) > K.bolt_diameter
            /\ Cardinality(HolesIn(l)) = 4 /\ Cardinality(HolesIn(r)) = 4
            /\ HolesIn(l) \cap HolesIn(r) = {}
            /\ HolesIn(l) \cup HolesIn(r) = DOMAIN K.bolt_hole_signs

C8_Witness ==
    /\ Len(parts) >= 7
    /\ parts[3].part.pts \cap parts[4].part.pts # {}
    /\ parts[3].part.pts # parts[4].part.pts
    /\ Len(K.bolt_hole_signs) = 8

====
